---------------------------- MODULE Spec2Model ----------------------------
(***************************************************************************)
(* Spectral-subtraction noise cancellation (auleian/noise-cancellation).   *)
(*                                                                         *)
(* The model follows backend/denoise.go, backend/window.go, the FFT kernel *)
(* (FFT, IFFT, bitReverse, reverseBits, isPowerOf2) and the WAV codec      *)
(* (ReadWAV).                                                              *)
(*                                                                         *)
(* Numbers.  A float64 is modelled by a fixed-point integer: the value v   *)
(* stands for the real v / Scale.  Every arithmetic operation of the       *)
(* source is the real operation followed by rounding to that grid (RDiv,   *)
(* Sqrt), so the model is real arithmetic with a coarser rounding than     *)
(* IEEE-754; it says nothing about the last bits of a float64.             *)
(*                                                                         *)
(* Slices.  A Go slice is a function on 0..n-1, so that every index of the *)
(* source is the same index in the model; Size is len().                   *)
(*                                                                         *)
(* Frame size.  The source fixes FrameSize = 2048.  The model runs the     *)
(* same code at FrameSize = 4, the largest frame whose Hann window and     *)
(* whose twiddle factors are all rational (cos and sin of multiples of     *)
(* 90 and 120 degrees); HopSize stays FrameSize / 2 and NoiseFrames        *)
(* stays 10.                                                               *)
(***************************************************************************)
EXTENDS Integers, Sequences, FiniteSets, TLC

\* ------------------------------------------------------------------------
\* Bounds of the model
\* ------------------------------------------------------------------------

\* Units per 1.0 of the fixed-point grid.
Scale == 10000

\* Longest complex buffer handed to FFT / IFFT by the kernel harness.
MaxFFTLen == 4

\* Longest sample buffer handed to Denoise.
MaxLen == 26

\* Denoise inputs repeat a pattern of this many samples.
PeriodLen == 3

\* Longest buffer handed to normalize on its own.
MaxNormLen == 3

\* Most fragments (chunks, cut chunks, stray bytes) after the RIFF header
\* of a file handed to ReadWAV.
MaxChunks == 3

\* Longest sample sequence handed to WriteWAV on its own.
MaxWavLen == 2

\* Number of concurrent calls of Denoise.
MaxCalls == 2

\* Number of MediaRecorders the page creates.
MaxRecordings == 3

\* ------------------------------------------------------------------------
\* Slices
\* ------------------------------------------------------------------------

Size(a) == Cardinality(DOMAIN a)

MakeSlice(n, v) == [i \in 0..(n - 1) |-> v]

Nil == MakeSlice(0, 0)

\* ------------------------------------------------------------------------
\* Fixed-point arithmetic
\* ------------------------------------------------------------------------

Abs(v) == IF v < 0 THEN -v ELSE v

\* a / b rounded to the nearest integer, halves away from zero (b > 0).
RDiv(a, b) == IF a >= 0 THEN (2 * a + b) \div (2 * b)
                         ELSE -((2 * (-a) + b) \div (2 * b))

\* Product of two grid values.
Mul(a, b) == RDiv(a * b, Scale)

\* Quotient of two grid values (b > 0).
Quo(a, b) == RDiv(a * Scale, b)

RECURSIVE SqrtBisect(_, _, _)
SqrtBisect(v, lo, hi) ==
    IF hi - lo <= 1 THEN lo
    ELSE LET mid == (lo + hi) \div 2 IN
         IF mid * mid <= v THEN SqrtBisect(v, mid, hi)
                           ELSE SqrtBisect(v, lo, mid)

\* Integer square root rounded to nearest: the r >= 0 with |r - sqrt(v)| <= 1/2.
Sqrt(v) == LET r == SqrtBisect(v, 0, 46341) IN
           IF v - r * r > r THEN r + 1 ELSE r

\* cos(2*pi*t/12) on the grid, t an integer number of twelfths of a turn.
Cos12(t) == LET q == t % 12 IN
            CASE q = 0            -> Scale
              [] q \in {1, 11}    -> Sqrt(3 * Scale * (Scale \div 4))
              [] q \in {2, 10}    -> RDiv(Scale, 2)
              [] q \in {3, 9}     -> 0
              [] q \in {4, 8}     -> -RDiv(Scale, 2)
              [] q \in {5, 7}     -> -Sqrt(3 * Scale * (Scale \div 4))
              [] q = 6            -> -Scale

\* math.Cos(2*math.Pi*num/den) and math.Sin(2*math.Pi*num/den); the angle
\* has to be a whole number of twelfths of a turn (den divides 12*num).
Cos2Pi(num, den) == Cos12((12 * num) \div den)
Sin2Pi(num, den) == Cos12((12 * num) \div den - 3)

\* ------------------------------------------------------------------------
\* complex128
\* ------------------------------------------------------------------------

Cx(re, im) == [re |-> re, im |-> im]

CAdd(a, b) == Cx(a.re + b.re, a.im + b.im)
CSub(a, b) == Cx(a.re - b.re, a.im - b.im)
CMul(a, b) == Cx(RDiv(a.re * b.re - a.im * b.im, Scale),
                 RDiv(a.re * b.im + a.im * b.re, Scale))
CConj(a)   == Cx(a.re, -a.im)

\* z / complex(float64(n), 0)
CDivReal(a, n) == Cx(RDiv(a.re, n), RDiv(a.im, n))

\* cmplx.Abs
CAbs(z) == Sqrt(z.re * z.re + z.im * z.im)

\* ------------------------------------------------------------------------
\* FFT kernel
\* ------------------------------------------------------------------------

RECURSIVE BitAnd(_, _)
BitAnd(a, b) == IF a = 0 \/ b = 0 THEN 0
                ELSE 2 * BitAnd(a \div 2, b \div 2) + (a % 2) * (b % 2)

isPowerOf2Even(n) == n > 0 /\ n % 2 = 0
isPowerOf2(n) == n > 0 /\ BitAnd(n, n - 1) = 0

RECURSIVE Log2(_)
\* int(math.Log2(float64(n))) for n >= 1
Log2(n) == IF n <= 1 THEN 0 ELSE 1 + Log2(n \div 2)

RECURSIVE Pow2(_)
\* 1 << s
Pow2(s) == IF s = 0 THEN 1 ELSE 2 * Pow2(s - 1)

RECURSIVE reverseBitsLoop(_, _, _, _)
reverseBitsLoop(v, bits, i, r) ==
    IF i >= bits THEN r
    ELSE reverseBitsLoop(v \div 2, bits, i + 1, 2 * r + (v % 2))

reverseBits(v, bits) == reverseBitsLoop(v, bits, 0, 0)

RECURSIVE bitReverseLoop(_, _, _)
bitReverseLoop(x, i, bits) ==
    IF i >= Size(x) THEN x
    ELSE LET j == reverseBits(i, bits) IN
         bitReverseLoop(IF j > i THEN [x EXCEPT ![i] = x[j], ![j] = x[i]] ELSE x,
                        i + 1, bits)

bitReverse(x) == bitReverseLoop(x, 0, Log2(Size(x)))

\* wm := cmplx.Exp(complex(0, -2*math.Pi/float64(m)))
TwiddlePositive(m) == Cx(Cos2Pi(1, m), Sin2Pi(1, m))
Twiddle(m) == Cx(Cos2Pi(1, m), -Sin2Pi(1, m))

RECURSIVE butterflyLoop(_, _, _, _, _, _)
\* for j := 0; j < m/2; j++ { ... }
butterflyLoop(out, k, j, m, w, wm) ==
    IF j >= m \div 2 THEN out
    ELSE LET t == CMul(w, out[k + j + m \div 2])
             u == out[k + j]
         IN  butterflyLoop([out EXCEPT ![k + j] = CAdd(u, t),
                                       ![k + j + m \div 2] = CSub(u, t)],
                           k, j + 1, m, CMul(w, wm), wm)

RECURSIVE spanLoop(_, _, _, _)
\* for k := 0; k < n; k += m { ... }
spanLoop(out, k, m, wm) ==
    IF k >= Size(out) THEN out
    ELSE spanLoop(butterflyLoop(out, k, 0, m, Cx(Scale, 0), wm), k + m, m, wm)

RECURSIVE stageLoop(_, _)
\* for s := 1; s <= int(math.Log2(float64(n))); s++ { ... }
stageLoop(out, s) ==
    IF s > Log2(Size(out)) THEN out
    ELSE stageLoop(spanLoop(out, 0, Pow2(s), Twiddle(Pow2(s))), s + 1)

FFTPanicsOnEmpty(x) == ~isPowerOf2(Size(x))
\* FFT panics: len(x) is neither zero nor a power of two.
FFTPanics(x) == Size(x) # 0 /\ ~isPowerOf2(Size(x))

\* FFT's return value when it does not panic.
FFT(x) == IF Size(x) = 0 THEN Nil ELSE stageLoop(bitReverse(x), 1)

\* IFFT panics exactly when its call of FFT does.
IFFTPanics(X) == Size(X) # 0 /\ FFTPanics([i \in DOMAIN X |-> CConj(X[i])])

IFFTUnscaled(X) ==
    IF Size(X) = 0 THEN Nil
    ELSE LET result == FFT([i \in DOMAIN X |-> CConj(X[i])])
         IN  [i \in DOMAIN result |-> CConj(result[i])]

IFFT(X) ==
    IF Size(X) = 0 THEN Nil
    ELSE LET n      == Size(X)
             conj   == [i \in DOMAIN X |-> CConj(X[i])]
             result == FFT(conj)
         IN  [i \in DOMAIN result |-> CDivReal(CConj(result[i]), n)]

\* ------------------------------------------------------------------------
\* Constants of denoise.go
\* ------------------------------------------------------------------------

\* FrameSize = 2048 in the source; see the note on the frame size above.
FrameSize == 4

HopSize == FrameSize \div 2

NoiseFrames == 10

\* SpectralFloor = 0.02
SpectralFloor == RDiv(2 * Scale, 100)

\* OverSubtract = 2.0
OverSubtract == 2 * Scale

\* normalize(output, 0.95)
TargetLevel == RDiv(95 * Scale, 100)

\* ------------------------------------------------------------------------
\* Comparisons with the small thresholds of denoise.go.  A buffer value v
\* with unit exponent e stands for the real v / (Scale * 10^e).
\* ------------------------------------------------------------------------

RECURSIVE TimesTenToBelow(_, _, _)
\* v * 10^k < s, for v >= 0 and s > 0, without leaving the integers of TLC
TimesTenToBelow(v, k, s) ==
    IF v >= s THEN FALSE
    ELSE IF k = 0 THEN TRUE
    ELSE TimesTenToBelow(v * 10, k - 1, s)

RECURSIVE TimesTenToAbove(_, _, _)
\* v * 10^k > s, for s > 0
TimesTenToAbove(v, k, s) ==
    IF v <= 0 THEN FALSE
    ELSE IF v > s THEN TRUE
    ELSE IF k = 0 THEN FALSE
    ELSE TimesTenToAbove(v * 10, k - 1, s)

\* peak < 1e-10, peak >= 0 held with unit exponent e <= 10
BelowPeakThresholdZero(peak, e) == peak = 0
BelowPeakThreshold(peak, e) == TimesTenToBelow(peak, 10 - e, Scale)

\* windowSum[i] > 1e-8
AboveWindowThreshold(v) == TimesTenToAbove(v, 8, Scale)

\* ------------------------------------------------------------------------
\* window.go and the helpers of denoise.go
\* ------------------------------------------------------------------------

HannWindow(n) ==
    IF n <= 1 THEN MakeSlice(1, Scale)
    ELSE [i \in 0..(n - 1) |-> Mul(RDiv(Scale, 2), Scale - Cos2Pi(i, n - 1))]

\* src[start:end] panics when start > end or start < 0
extractFramePanics(src, start, size) ==
    LET end == IF start + size > Size(src) THEN Size(src) ELSE start + size
    IN  start < 0 \/ start > end

extractFrame(src, start, size) ==
    LET end == IF start + size > Size(src) THEN Size(src) ELSE start + size
    IN  [i \in 0..(size - 1) |-> IF i < end - start THEN src[start + i] ELSE 0]

applyWindow(frame, window) == [i \in DOMAIN frame |-> Mul(frame[i], window[i])]

realToComplex(x) == [i \in DOMAIN x |-> Cx(x[i], 0)]

RECURSIVE peakLoop(_, _, _)
\* for _, s := range samples { a := math.Abs(s); if a > peak { peak = a } }
peakLoop(samples, i, peak) ==
    IF i >= Size(samples) THEN peak
    ELSE peakLoop(samples, i + 1,
                  IF Abs(samples[i]) > peak THEN Abs(samples[i]) ELSE peak)

Peak(samples) == peakLoop(samples, 0, 0)

\* normalize on a buffer held with unit exponent e.  The gain
\* targetLevel / peak is kept as the exact quotient and each product is
\* rounded to the grid; a scaled buffer is held with unit exponent 0.
normalize(samples, targetLevel, e) ==
    LET peak == Peak(samples) IN
    IF BelowPeakThreshold(peak, e)
      THEN [samples |-> samples, e |-> e]
      ELSE [samples |-> [i \in DOMAIN samples |->
                            RDiv(samples[i] * targetLevel, peak)],
            e |-> 0]

\* ------------------------------------------------------------------------
\* The steps of Denoise
\* ------------------------------------------------------------------------

PadNone(samples) == samples
\* padded := make([]float64, FrameSize); copy(padded, samples)
Pad(samples) ==
    IF Size(samples) < FrameSize
      THEN [i \in 0..(FrameSize - 1) |->
               IF i < Size(samples) THEN samples[i] ELSE 0]
      ELSE samples

\* Go's integer division truncates toward zero.
GoDiv(a, b) == IF a >= 0 THEN a \div b ELSE -((-a) \div b)

TotalFramesShort(n) ==
    LET totalFrames == GoDiv(n - FrameSize, HopSize)
    IN  IF totalFrames < 1 THEN 1 ELSE totalFrames
TotalFramesCeil(n) ==
    LET totalFrames == GoDiv(n - FrameSize + HopSize - 1, HopSize) + 1
    IN  IF totalFrames < 1 THEN 1 ELSE totalFrames
\* Lines 53-56
TotalFrames(n) ==
    LET totalFrames == GoDiv(n - FrameSize, HopSize) + 1
    IN  IF totalFrames < 1 THEN 1 ELSE totalFrames

CapNoiseFramesNone(totalFrames) == NoiseFrames
CapNoiseFrames(totalFrames) ==
    IF NoiseFrames > totalFrames THEN totalFrames ELSE NoiseFrames

\* frame := extractFrame(...); applyWindow(frame, window);
\* cx := realToComplex(frame): the buffer handed to FFT
WindowedFrame(src, start, window) ==
    realToComplex(applyWindow(extractFrame(src, start, FrameSize), window))

\* one frame of the loops panics: slice out of range, window shorter than
\* the frame, FFT or IFFT on a bad length, spectrum shorter than FrameSize
FramePanics(src, start, window) ==
    \/ extractFramePanics(src, start, FrameSize)
    \/ Size(window) < FrameSize
    \/ FFTPanics(WindowedFrame(src, start, window))
    \/ IFFTPanics(WindowedFrame(src, start, window))

\* noiseMag[k] += cmplx.Abs(spectrum[k])
AccumulateNoise(noise, spectrum) ==
    [k \in 0..(FrameSize - 1) |-> noise[k] + CAbs(spectrum[k])]

\* noiseMag[k] /= float64(noiseFrames)
AverageNoise(noise, frames) == [k \in DOMAIN noise |-> RDiv(noise[k], frames)]

\* cmplx.Phase: the angle is held as the direction it points in;
\* Phase(0) = atan2(0, 0) = 0.
Phase(z) ==
    IF z.re = 0 /\ z.im = 0 THEN [re |-> Scale, im |-> 0, abs |-> Scale]
    ELSE [re |-> z.re, im |-> z.im, abs |-> CAbs(z)]

\* cmplx.Rect(r, phase) = r * (cos(phase) + j sin(phase))
Rect(r, phase) == Cx(RDiv(r * phase.re, phase.abs), RDiv(r * phase.im, phase.abs))

SubtractBinConstantFloor(z, noise) ==
    LET mag       == CAbs(z)
        phase     == Phase(z)
        cleanMag  == mag - Mul(OverSubtract, noise)
        floor     == SpectralFloor
    IN  Rect(IF cleanMag < floor THEN floor ELSE cleanMag, phase)
\* the body of the spectral-subtraction loop for one bin
SubtractBin(z, noise) ==
    LET mag       == CAbs(z)
        phase     == Phase(z)
        cleanMag  == mag - Mul(OverSubtract, noise)
        floor     == Mul(SpectralFloor, mag)
    IN  Rect(IF cleanMag < floor THEN floor ELSE cleanMag, phase)

SpectralSubtract(spectrum, noise) ==
    [k \in 0..(FrameSize - 1) |-> SubtractBin(spectrum[k], noise[k])]

RECURSIVE overlapAddLoopSum(_, _, _, _, _, _)
overlapAddLoopSum(acc, cleaned, window, start, j, n) ==
    IF j >= FrameSize THEN acc
    ELSE LET idx == start + j IN
         overlapAddLoopSum(
            IF idx < n
              THEN [output    |-> [acc.output EXCEPT
                                     ![idx] = @ + (cleaned[j].re + window[j])],
                    windowSum |-> [acc.windowSum EXCEPT
                                     ![idx] = @ + Mul(window[j], window[j])]]
              ELSE acc,
            cleaned, window, start, j + 1, n)

RECURSIVE overlapAddLoopPlainWindow(_, _, _, _, _, _)
overlapAddLoopPlainWindow(acc, cleaned, window, start, j, n) ==
    IF j >= FrameSize THEN acc
    ELSE LET idx == start + j IN
         overlapAddLoopPlainWindow(
            IF idx < n
              THEN [output    |-> [acc.output EXCEPT
                                     ![idx] = @ + Mul(cleaned[j].re, window[j])],
                    windowSum |-> [acc.windowSum EXCEPT
                                     ![idx] = @ + window[j]]]
              ELSE acc,
            cleaned, window, start, j + 1, n)

RECURSIVE overlapAddLoop(_, _, _, _, _, _)
\* for j := 0; j < FrameSize; j++ { idx := start + j; if idx < n { ... } }
overlapAddLoop(acc, cleaned, window, start, j, n) ==
    IF j >= FrameSize THEN acc
    ELSE LET idx == start + j IN
         overlapAddLoop(
            IF idx < n
              THEN [output    |-> [acc.output EXCEPT
                                     ![idx] = @ + Mul(cleaned[j].re, window[j])],
                    windowSum |-> [acc.windowSum EXCEPT
                                     ![idx] = @ + Mul(window[j], window[j])]]
              ELSE acc,
            cleaned, window, start, j + 1, n)

\* if windowSum[i] > 1e-8 { output[i] /= windowSum[i] }
WindowNormalize(out, wsum) ==
    [i \in DOMAIN out |->
        IF AboveWindowThreshold(wsum[i]) THEN Quo(out[i], wsum[i]) ELSE out[i]]

\* What a frame of the loops leaves in the slice it is taken from.
\* extractFrame copies src[start:end] into a frame of its own (lines
\* 159-164) and applyWindow multiplies that copy in place, so src is left
\* as it was.
AfterFrameInPlace(src, start, window) ==
    [i \in DOMAIN src |->
        IF start <= i /\ i < start + FrameSize
          THEN Mul(src[i], window[i - start]) ELSE src[i]]
AfterFrame(src, start, window) == src

\* ------------------------------------------------------------------------
\* WAV codec: ReadWAV
\* ------------------------------------------------------------------------

\* data[from:to]
SubSlice(bytes, from, to) == [i \in 0..(to - from - 1) |-> bytes[from + i]]

\* string(data[at : at+4]) as its four bytes
String4(bytes, at) == <<bytes[at], bytes[at + 1], bytes[at + 2], bytes[at + 3]>>

\* binary.LittleEndian.Uint16
Uint16(bytes, at) == bytes[at] + 256 * bytes[at + 1]

\* int(binary.LittleEndian.Uint32(...)).  Go's int has 64 bits; the integers
\* of TLC have 32, so a value of 2^30 or more is held as 2^30.  To ReadWAV
\* the two are the same for every file shorter than 2^30 bytes: such a
\* size is at least 16, runs past the end of the file, and moves pos past
\* the end of the file.
Uint32(bytes, at) ==
    IF bytes[at + 3] >= 64 THEN 64 * 16777216
    ELSE bytes[at] + 256 * bytes[at + 1] + 65536 * bytes[at + 2]
           + 16777216 * bytes[at + 3]

\* int16(v) of a uint16
Int16(v) == IF v >= 32768 THEN v - 65536 ELSE v

RIFF == <<82, 73, 70, 70>>
WAVE == <<87, 65, 86, 69>>
FmtID == <<102, 109, 116, 32>>
DataID == <<100, 97, 116, 97>>

\* What ReadWAV returns.  A sample v stands for v / WavUnit: float64(s) /
\* 32768.0 is 2*s, and the mono mix (l + r) / 2.0 is l + r.
WavUnit == 2 * 32768

WavError(msg) == [samples |-> Nil, sampleRate |-> 0, err |-> msg]

WavOK(smp, rate) == [samples |-> smp, sampleRate |-> rate, err |-> "nil"]

\* Lines 22-32: the checks before the chunk walk; "nil" when they pass.
CheckRIFF(bytes) ==
    IF Size(bytes) < 12 THEN "wav: file too short"
    ELSE IF String4(bytes, 0) # RIFF THEN "wav: missing RIFF header"
    ELSE IF String4(bytes, 8) # WAVE THEN "wav: missing WAVE identifier"
    ELSE "nil"

\* Lines 46-63: the "fmt " case; the error it returns, or "nil".
FmtError(bytes, chunkStart, chunkSize) ==
    IF chunkSize < 16 THEN "wav: fmt chunk too small"
    ELSE IF chunkStart + 16 > Size(bytes) THEN "wav: fmt chunk truncated"
    ELSE IF Uint16(bytes, chunkStart) # 1 THEN "wav: unsupported audio format"
    ELSE IF Uint16(bytes, chunkStart + 14) # 16
           THEN "wav: unsupported bits per sample"
    ELSE "nil"

\* Lines 56-60: header = &WAVHeader{...}
FmtHeader(bytes, chunkStart) ==
    [NumChannels   |-> Uint16(bytes, chunkStart + 2),
     SampleRate    |-> Uint32(bytes, chunkStart + 4),
     BitsPerSample |-> Uint16(bytes, chunkStart + 14)]

\* Lines 66-70: pcmData = data[chunkStart:end]
DataBytes(bytes, chunkStart, chunkSize) ==
    LET end == IF chunkStart + chunkSize > Size(bytes)
                 THEN Size(bytes) ELSE chunkStart + chunkSize
    IN  SubSlice(bytes, chunkStart, end)

NextChunkNoPadding(chunkStart, chunkSize) == chunkStart + chunkSize
\* Lines 74-77: pos = chunkStart + chunkSize, plus the padding byte
NextChunk(chunkStart, chunkSize) ==
    IF chunkSize % 2 # 0 THEN chunkStart + chunkSize + 1
                         ELSE chunkStart + chunkSize

\* Lines 88-105: the int16 samples, mixed to mono when NumChannels = 2
ParseSamples(pcm, hdr) ==
    LET numSamples == Size(pcm) \div 2
        rawSamples == [i \in 0..(numSamples - 1) |->
                          2 * Int16(Uint16(pcm, i * 2))]
    IN  IF hdr.NumChannels = 2
          THEN [i \in 0..(numSamples \div 2 - 1) |->
                   (rawSamples[i * 2] + rawSamples[i * 2 + 1]) \div 2]
          ELSE rawSamples

\* ------------------------------------------------------------------------
\* WAV codec: WriteWAV
\* ------------------------------------------------------------------------

\* binary.Write(buf, binary.LittleEndian, uint16(v)) and uint32(v)
Bytes16(v) == <<v % 256, (v \div 256) % 256>>

Bytes32(v) == <<v % 256, (v \div 256) % 256, (v \div 65536) % 256,
                (v \div 16777216) % 256>>

RECURSIVE Concat(_)
Concat(parts) == IF parts = <<>> THEN <<>> ELSE Head(parts) \o Concat(Tail(parts))

ToSlice(seq) == [i \in 0..(Len(seq) - 1) |-> seq[i + 1]]

\* int16(math.Round(x)) for a rounded x; a value outside the int16 range
\* is held as its low 16 bits
ToInt16(v) == ((v + 32768) % 65536) - 32768

SampleToInt16NoClamp(s) ==
    ToInt16(IF s >= 0 THEN RDiv(s * 32767, Scale) ELSE RDiv(s * 32768, Scale))
\* Lines 137-149: clamp to [-1, 1], then round(s * 32767) for s >= 0 and
\* round(s * 32768) for s < 0; math.Round rounds halves away from zero.
SampleToInt16(s) ==
    LET c == IF s > Scale THEN Scale ELSE IF s < -Scale THEN -Scale ELSE s
    IN  ToInt16(IF c >= 0 THEN RDiv(c * 32767, Scale)
                          ELSE RDiv(c * 32768, Scale))

\* Lines 109-154.  uint32(sampleRate * 2) keeps the low 32 bits.
WriteWAV(samples, sampleRate) ==
    LET numSamples == Size(samples)
        dataSize   == numSamples * 2
        fileSize   == 36 + dataSize
    IN  ToSlice(
          RIFF \o Bytes32(fileSize) \o WAVE
          \o FmtID \o Bytes32(16) \o Bytes16(1) \o Bytes16(1)
          \o Bytes32(sampleRate) \o Bytes32(sampleRate * 2)
          \o Bytes16(2) \o Bytes16(16)
          \o DataID \o Bytes32(dataSize)
          \o Concat([i \in 1..numSamples |->
                        Bytes16(SampleToInt16(samples[i - 1]) % 65536)]))

\* ------------------------------------------------------------------------
\* State
\* ------------------------------------------------------------------------

VARIABLES
    kx,           \* kernel harness: the buffer handed to FFT or IFFT
    kout,         \* kernel harness: the buffer FFT or IFFT returned
    krec,         \* kernel harness: IFFT(FFT(kx)) of the round trip
    kpc,          \* kernel harness: "call", "fft_ret", "fft_panic",
                  \*                 "ifft_ret", "ifft_panic", "roundtrip_ret"
    arg,          \* Denoise: the caller's slice, as passed
    sampleRate,   \* Denoise: the sampleRate argument
    samples,      \* Denoise: the local samples (the padded copy if padded)
    n,            \* Denoise: n
    totalFrames,  \* Denoise: totalFrames
    noiseFrames,  \* Denoise: noiseFrames
    window,       \* Denoise: window
    noiseMag,     \* Denoise: noiseMag
    output,       \* Denoise: output
    windowSum,    \* Denoise: windowSum
    fi,           \* Denoise: fi of the loop the call is in
    peak,         \* normalize(output, 0.95): peak
    dpc,          \* Denoise: "idle", "pass1", "pass2", "step3", "step4",
                  \*          "ret", "panic"
    earlier,      \* <<result>> of an earlier call on the same samples
    nbuf,         \* normalize called on its own: the buffer before the call
    nout,         \* normalize called on its own: the buffer after the call
    npc,          \* normalize called on its own: "idle", "ret"
    data,         \* ReadWAV: data
    pos,          \* ReadWAV: pos
    header,       \* ReadWAV: header, <<>> for nil, <<h>> for &h
    pcmData,      \* ReadWAV: pcmData, <<>> for nil, <<b>> for the slice b
    wret,         \* ReadWAV: the samples, sample rate and error returned
    wpc,          \* ReadWAV: "idle", "walk", "ret"
    wsrc,         \* WAV round trip: the samples handed to WriteWAV
    wrate,        \* WAV round trip: the sample rate handed to WriteWAV
    cpc,          \* WAV round trip: "idle", "written", "readback"
    req,          \* HTTP: the request being served
    resp,         \* HTTP: the response: status, headers, body
    hpc,          \* HTTP: "idle", "handler", "readwav", "denoise", "done"
    invoked,      \* HTTP: whether next.ServeHTTP (the handler) was invoked
    called,       \* HTTP: how many times the request called Denoise
    given,        \* concurrent calls: the callers' slices as handed over
    shared,       \* concurrent calls: the callers' slices as they are now
    calls,        \* concurrent calls: the locals of each call of Denoise
    active,           \* useRecorder: state active
    audioUrl,         \* useRecorder: state audioUrl; 0 for null, else the
                      \*   recording the URL is of
    cleanedAudioUrl,  \* useRecorder: state cleanedAudioUrl; 0 for null, else
                      \*   the recording whose denoised audio the URL is of
    processing,       \* useRecorder: state processing
    mediaRecorderRef, \* useRecorder: mediaRecorderRef.current; 0 for null
    webmBlobRef,      \* useRecorder: webmBlobRef.current; 0 for null
    micPending,       \* calls of getUserMedia that have not settled
    recorders,        \* the MediaRecorders that are recording
    stopEvents,       \* the MediaRecorders whose stop event is queued
    sends,            \* the recordings whose sendRecording awaits its reply
    made              \* how many MediaRecorders have been created

kernelVars == <<kx, kout, krec, kpc>>

denoiseVars == <<arg, sampleRate, samples, n, totalFrames, noiseFrames, window,
                 noiseMag, output, windowSum, fi, peak, dpc, earlier>>

normVars == <<nbuf, nout, npc>>

wavVars == <<data, pos, header, pcmData, wret, wpc>>

codecVars == <<wsrc, wrate, cpc>>

httpVars == <<req, resp, hpc, invoked, called>>

concVars == <<given, shared, calls>>

hookVars == <<active, audioUrl, cleanedAudioUrl, processing, mediaRecorderRef,
              webmBlobRef, micPending, recorders, stopEvents, sends, made>>

extVars == <<codecVars, httpVars, concVars, hookVars>>

nonHookVars == <<kernelVars, denoiseVars, normVars, wavVars, codecVars,
                 httpVars, concVars>>

vars == <<kernelVars, denoiseVars, normVars, wavVars, extVars>>

\* ------------------------------------------------------------------------
\* FFT kernel harness (TestFFTRoundtrip: spectrum := FFT(input);
\* recovered := IFFT(spectrum)), plus a direct call of IFFT
\* ------------------------------------------------------------------------

CVals == {Cx(re, im) : re \in {-Scale, 0, Scale \div 2}, im \in {0, Scale}}

KernelInputs == UNION {[0..(len - 1) -> CVals] : len \in 0..MaxFFTLen}

KernelIdle == /\ kx = Nil
              /\ kout = Nil
              /\ krec = Nil
              /\ kpc = "idle"

KernelInit == /\ kx \in KernelInputs
              /\ kout = Nil
              /\ krec = Nil
              /\ kpc = "call"

\* spectrum := FFT(input)
CallFFT ==
    /\ kpc = "call"
    /\ IF FFTPanics(kx)
          THEN kpc' = "fft_panic" /\ UNCHANGED kout
          ELSE kpc' = "fft_ret" /\ kout' = FFT(kx)
    /\ UNCHANGED <<kx, krec, denoiseVars, normVars, extVars, wavVars>>

\* x := IFFT(X)
CallIFFT ==
    /\ kpc = "call"
    /\ IF IFFTPanics(kx)
          THEN kpc' = "ifft_panic" /\ UNCHANGED kout
          ELSE kpc' = "ifft_ret" /\ kout' = IFFT(kx)
    /\ UNCHANGED <<kx, krec, denoiseVars, normVars, extVars, wavVars>>

\* recovered := IFFT(spectrum)
CallIFFTOfSpectrum ==
    /\ kpc = "fft_ret"
    /\ IF IFFTPanics(kout)
          THEN kpc' = "ifft_panic" /\ UNCHANGED krec
          ELSE kpc' = "roundtrip_ret" /\ krec' = IFFT(kout)
    /\ UNCHANGED <<kx, kout, denoiseVars, normVars, extVars, wavVars>>

KernelNext == CallFFT \/ CallIFFT \/ CallIFFTOfSpectrum

\* ------------------------------------------------------------------------
\* Denoise
\* ------------------------------------------------------------------------

SampleVals == {-Scale, 0, RDiv(Scale, 2)}

\* Samples of a leading silence long enough to cover every noise frame.
LeadSilence == HopSize * NoiseFrames + HopSize

Leads == {0, LeadSilence}

\* lead zero samples, then the pattern seed repeated, len samples in all
Recording(seed, lead, len) ==
    [i \in 0..(len - 1) |-> IF i < lead THEN 0 ELSE seed[(i - lead) % PeriodLen]]

DenoiseInputs ==
    {Recording(seed, lead, len) : seed \in [0..(PeriodLen - 1) -> SampleVals],
                                  lead \in Leads, len \in 0..MaxLen}

SampleRates == {44100, 48000}

DenoiseLocalsIdle ==
    /\ samples = Nil
    /\ n = 0
    /\ totalFrames = 0
    /\ noiseFrames = 0
    /\ window = Nil
    /\ noiseMag = Nil
    /\ output = Nil
    /\ windowSum = Nil
    /\ fi = 0
    /\ peak = 0

DenoiseIdle ==
    /\ arg = Nil
    /\ sampleRate = 0
    /\ DenoiseLocalsIdle
    /\ dpc = "idle"
    /\ earlier = <<>>

\* ReadWAV before a call
WavIdle ==
    /\ data = Nil
    /\ pos = 0
    /\ header = <<>>
    /\ pcmData = <<>>
    /\ wret = WavOK(Nil, 0)
    /\ wpc = "idle"

NormalizeIdle ==
    /\ nbuf = [samples |-> Nil, e |-> 0]
    /\ nout = [samples |-> Nil, e |-> 0]
    /\ npc = "idle"

\* Lines 39-70 of Denoise(samples, sampleRate) for a non-empty slice: the
\* locals as they stand at the first loop.
PrologueByRate(in, rate) ==
    [samples     |-> Pad(in),
     n           |-> Size(Pad(in)),
     totalFrames |-> TotalFrames(Size(Pad(in))),
     noiseFrames |-> LET byRate == RDiv(NoiseFrames * rate, 44100) IN
                     IF byRate > TotalFrames(Size(Pad(in)))
                       THEN TotalFrames(Size(Pad(in))) ELSE byRate,
     window      |-> HannWindow(FrameSize),
     noiseMag    |-> MakeSlice(FrameSize, 0)]

Prologue(in, rate) ==
    [samples     |-> Pad(in),
     n           |-> Size(Pad(in)),
     totalFrames |-> TotalFrames(Size(Pad(in))),
     noiseFrames |-> CapNoiseFrames(TotalFrames(Size(Pad(in)))),
     window      |-> HannWindow(FrameSize),
     noiseMag    |-> MakeSlice(FrameSize, 0)]

\* A call of Denoise, with locals of its own, up to the first loop; an
\* empty slice returns nil at once (lines 39-42).
Enter(in, rate) ==
    /\ arg' = in
    /\ sampleRate' = rate
    /\ output' = Nil
    /\ windowSum' = Nil
    /\ fi' = 0
    /\ peak' = 0
    /\ IF Size(in) = 0
         THEN /\ dpc' = "ret"
              /\ samples' = in
              /\ n' = 0
              /\ totalFrames' = 0
              /\ noiseFrames' = 0
              /\ window' = Nil
              /\ noiseMag' = Nil
         ELSE /\ dpc' = "pass1"
              /\ samples' = Prologue(in, rate).samples
              /\ n' = Prologue(in, rate).n
              /\ totalFrames' = Prologue(in, rate).totalFrames
              /\ noiseFrames' = Prologue(in, rate).noiseFrames
              /\ window' = Prologue(in, rate).window
              /\ noiseMag' = Prologue(in, rate).noiseMag

\* cleaned := Denoise(samples, sampleRate)
DenoiseCall ==
    /\ dpc = "idle" /\ npc = "idle"
    /\ \E in \in DenoiseInputs, rate \in SampleRates : Enter(in, rate)
    /\ UNCHANGED <<earlier, kernelVars, normVars, extVars, wavVars>>

\* Lines 72-83: one iteration of the noise-estimation loop.
NoiseFrame ==
    /\ dpc = "pass1"
    /\ fi < noiseFrames
    /\ LET start == fi * HopSize IN
       IF FramePanics(samples, start, window)
         THEN dpc' = "panic" /\ UNCHANGED <<noiseMag, fi>>
         ELSE /\ noiseMag' = AccumulateNoise(noiseMag,
                                 FFT(WindowedFrame(samples, start, window)))
              /\ fi' = fi + 1
              /\ UNCHANGED dpc
    /\ UNCHANGED <<arg, sampleRate, samples, n, totalFrames, noiseFrames,
                   window, output, windowSum, peak, earlier, kernelVars, normVars, extVars, wavVars>>

\* Lines 86-94: the average, and the allocation of output and windowSum.
NoiseAverage ==
    /\ dpc = "pass1"
    /\ fi >= noiseFrames
    /\ noiseMag' = AverageNoise(noiseMag, noiseFrames)
    /\ output' = MakeSlice(n, 0)
    /\ windowSum' = MakeSlice(n, 0)
    /\ fi' = 0
    /\ dpc' = "pass2"
    /\ UNCHANGED <<arg, sampleRate, samples, n, totalFrames, noiseFrames,
                   window, peak, earlier, kernelVars, normVars, extVars, wavVars>>

\* Lines 96-136: one iteration of the spectral-subtraction loop.
ProcessFrame ==
    /\ dpc = "pass2"
    /\ fi < totalFrames
    /\ LET start == fi * HopSize IN
       IF FramePanics(samples, start, window)
         THEN dpc' = "panic" /\ UNCHANGED <<output, windowSum, fi>>
         ELSE LET spectrum == FFT(WindowedFrame(samples, start, window))
                  cleaned  == IFFT(SpectralSubtract(spectrum, noiseMag))
                  acc      == overlapAddLoop(
                                 [output |-> output, windowSum |-> windowSum],
                                 cleaned, window, start, 0, n)
              IN  /\ output' = acc.output
                  /\ windowSum' = acc.windowSum
                  /\ fi' = fi + 1
                  /\ UNCHANGED dpc
    /\ UNCHANGED <<arg, sampleRate, samples, n, totalFrames, noiseFrames,
                   window, noiseMag, peak, earlier, kernelVars, normVars, extVars, wavVars>>

\* Lines 141-145: division by the accumulated window energy.
Step3 ==
    /\ dpc = "pass2"
    /\ fi >= totalFrames
    /\ output' = WindowNormalize(output, windowSum)
    /\ dpc' = "step4"
    /\ UNCHANGED <<arg, sampleRate, samples, n, totalFrames, noiseFrames,
                   window, noiseMag, windowSum, fi, peak, earlier,
                   kernelVars, normVars, extVars, wavVars>>

\* Lines 151-153: normalize(output, 0.95); return output.
Step4 ==
    /\ dpc = "step4"
    /\ peak' = Peak(output)
    /\ output' = normalize(output, TargetLevel, 0).samples
    /\ dpc' = "ret"
    /\ UNCHANGED <<arg, sampleRate, samples, n, totalFrames, noiseFrames,
                   window, noiseMag, windowSum, fi, earlier,
                   kernelVars, normVars, extVars, wavVars>>

DenoiseStep == NoiseFrame \/ NoiseAverage \/ ProcessFrame \/ Step3 \/ Step4

\* A second request carries the same samples at another sample rate.
DenoiseAgain ==
    /\ dpc = "ret"
    /\ earlier = <<>>
    /\ earlier' = <<output>>
    /\ \E rate \in SampleRates \ {sampleRate} : Enter(arg, rate)
    /\ UNCHANGED <<kernelVars, normVars, extVars, wavVars>>

\* normalize(samples, targetLevel) called on a buffer of its own
NormVals == {-150, -100, 0, 99}

NormExps == {7, 8, 9}

NormalizeInputs ==
    {[samples |-> b, e |-> e] :
        b \in UNION {[0..(len - 1) -> NormVals] : len \in 0..MaxNormLen},
        e \in NormExps}

NormalizeCall ==
    /\ dpc = "idle" /\ npc = "idle"
    /\ \E buf \in NormalizeInputs :
          /\ nbuf' = buf
          /\ nout' = normalize(buf.samples, TargetLevel, buf.e)
    /\ npc' = "ret"
    /\ UNCHANGED <<kernelVars, denoiseVars, wavVars, extVars>>

\* the WAV round trip before WriteWAV is called
CodecIdle ==
    /\ wsrc = Nil
    /\ wrate = 0
    /\ cpc = "idle"

\* the server before a request arrives
HttpIdle ==
    /\ req = [method |-> "", multipartOK |-> FALSE, hasFile |-> FALSE,
              readOK |-> FALSE, file |-> Nil]
    /\ resp = [status |-> 0, headers |-> {}, text |-> "", body |-> Nil]
    /\ hpc = "idle"
    /\ invoked = FALSE
    /\ called = 0

\* the locals of a call of Denoise that has not been made
IdleCall ==
    [slice |-> 0, dpc |-> "idle", padded |-> <<>>, n |-> 0, totalFrames |-> 0,
     noiseFrames |-> 0, window |-> Nil, noiseMag |-> Nil, output |-> Nil,
     windowSum |-> Nil, fi |-> 0]

\* no request is being served concurrently
ConcIdle ==
    /\ given = <<>>
    /\ shared = <<>>
    /\ calls = [g \in 1..MaxCalls |-> IdleCall]

\* useRecorder as the page mounts it (lines 7-14)
HookIdle ==
    /\ active = FALSE
    /\ audioUrl = 0
    /\ cleanedAudioUrl = 0
    /\ processing = FALSE
    /\ mediaRecorderRef = 0
    /\ webmBlobRef = 0
    /\ micPending = 0
    /\ recorders = {}
    /\ stopEvents = {}
    /\ sends = {}
    /\ made = 0

ExtIdle == CodecIdle /\ HttpIdle /\ ConcIdle /\ HookIdle

Init == KernelIdle /\ DenoiseIdle /\ NormalizeIdle /\ WavIdle /\ ExtIdle

Next == DenoiseCall \/ DenoiseStep \/ DenoiseAgain \/ NormalizeCall

Spec == Init /\ [][Next]_vars

InitFFT == KernelInit /\ DenoiseIdle /\ NormalizeIdle /\ WavIdle /\ ExtIdle

SpecFFT == InitFFT /\ [][KernelNext]_vars

\* ------------------------------------------------------------------------
\* ReadWAV
\* ------------------------------------------------------------------------

\* the 16 bytes of a "fmt " body
FmtBody(format, channels, rate, bits) ==
    Bytes16(format) \o Bytes16(channels) \o Bytes32(rate)
        \o Bytes32(rate * channels * (bits \div 8))
        \o Bytes16(channels * (bits \div 8)) \o Bytes16(bits)

\* a chunk header declaring `declared` bytes, followed by `body`
Chunk(id, declared, body) == id \o Bytes32(declared) \o body

ListID == <<76, 73, 83, 84>>

\* What may follow the RIFF header: whole chunks, chunks with a defect,
\* chunks cut short, and stray bytes.
Fragments ==
    { Chunk(FmtID, 16, FmtBody(1, 1, 8000, 16)),
      Chunk(FmtID, 16, FmtBody(1, 2, 11025, 16)),
      Chunk(FmtID, 16, FmtBody(3, 1, 8000, 16)),
      Chunk(FmtID, 16, FmtBody(1, 1, 8000, 8)),
      Chunk(FmtID, 14, SubSeq(FmtBody(1, 1, 8000, 16), 1, 14)),
      Chunk(FmtID, 16, SubSeq(FmtBody(1, 1, 8000, 16), 1, 10)),
      Chunk(DataID, 4, <<1, 0, 255, 255>>),
      Chunk(DataID, 3, <<0, 128, 7, 0>>),
      Chunk(DataID, 64, <<52, 18>>),
      Chunk(ListID, 1, <<9, 0>>),
      Chunk(ListID, 2, <<9, 9>>),
      <<1, 2, 3>> }

FileHeaders ==
    { RIFF \o Bytes32(36) \o WAVE,
      <<82, 73, 70, 88>> \o Bytes32(36) \o WAVE,
      RIFF \o Bytes32(36) \o <<87, 65, 86, 88>>,
      RIFF \o Bytes32(36) \o <<87, 65, 86>> }

WavInputs ==
    { ToSlice(h \o Concat(parts)) :
        h \in FileHeaders,
        parts \in UNION {[1..k -> Fragments] : k \in 0..MaxChunks} }

\* samples, sampleRate, err := ReadWAV(data): lines 22-38.
ReadWAVCall ==
    /\ wpc = "idle"
    /\ \E bytes \in WavInputs :
          /\ data' = bytes
          /\ IF CheckRIFF(bytes) # "nil"
               THEN /\ wret' = WavError(CheckRIFF(bytes))
                    /\ wpc' = "ret"
                    /\ UNCHANGED pos
               ELSE /\ pos' = 12
                    /\ wpc' = "walk"
                    /\ UNCHANGED wret
    /\ UNCHANGED <<header, pcmData, kernelVars, denoiseVars, normVars, extVars>>

\* Lines 39-78: one iteration of the chunk walk.
WalkChunk ==
    /\ wpc = "walk"
    /\ pos + 8 <= Size(data)
    /\ LET chunkID    == String4(data, pos)
           chunkSize  == Uint32(data, pos + 4)
           chunkStart == pos + 8
       IN  IF chunkID = FmtID /\ FmtError(data, chunkStart, chunkSize) # "nil"
             THEN /\ wret' = WavError(FmtError(data, chunkStart, chunkSize))
                  /\ wpc' = "ret"
                  /\ header' =
                        IF FmtError(data, chunkStart, chunkSize)
                              = "wav: unsupported bits per sample"
                          THEN <<FmtHeader(data, chunkStart)>> ELSE header
                  /\ UNCHANGED <<pos, pcmData>>
             ELSE /\ header' = IF chunkID = FmtID
                                 THEN <<FmtHeader(data, chunkStart)>> ELSE header
                  /\ pcmData' = IF chunkID = DataID
                                  THEN <<DataBytes(data, chunkStart, chunkSize)>>
                                  ELSE pcmData
                  /\ pos' = NextChunk(chunkStart, chunkSize)
                  /\ UNCHANGED <<wret, wpc>>
    /\ UNCHANGED <<data, kernelVars, denoiseVars, normVars, extVars>>

\* Lines 80-105: after the walk.
ReadWAVReturn ==
    /\ wpc = "walk"
    /\ pos + 8 > Size(data)
    /\ wret' = IF header = <<>> THEN WavError("wav: no fmt chunk found")
               ELSE IF pcmData = <<>> THEN WavError("wav: no data chunk found")
               ELSE WavOK(ParseSamples(pcmData[1], header[1]),
                          header[1].SampleRate)
    /\ wpc' = "ret"
    /\ UNCHANGED <<data, pos, header, pcmData, kernelVars, denoiseVars, normVars, extVars>>

WavNext == ReadWAVCall \/ WalkChunk \/ ReadWAVReturn

SpecWAV == Init /\ [][WavNext]_vars

\* ------------------------------------------------------------------------
\* Properties of Denoise and normalize
\* ------------------------------------------------------------------------

IsPowerOfTwo(len) == \E e \in 0..len : len = 2 ^ e

AllZero(buf) == \A i \in DOMAIN buf : buf[i] = 0

Longer(a, b) == IF a > b THEN a ELSE b

\* C1: Denoise returns len(samples) samples when len(samples) >= FrameSize,
\* exactly FrameSize samples when 0 < len(samples) < FrameSize, and an empty
\* slice when len(samples) = 0, whatever the sample rate.
C1_LengthRule ==
    dpc = "ret" =>
        Size(output) = IF Size(arg) = 0 THEN 0
                       ELSE IF Size(arg) < FrameSize THEN FrameSize
                       ELSE Size(arg)

C1_Witness ==
    /\ dpc = "ret"
    /\ Size(arg) = FrameSize - 1
    /\ Size(output) = FrameSize
    /\ ~AllZero(output)

\* C2 as stated: for every N >= 0, Denoise of N zero samples returns
\* max(N, FrameSize) samples, all of them zero.
C2_SilenceForEveryLength ==
    (dpc = "ret" /\ AllZero(arg)) =>
        output = MakeSlice(Longer(Size(arg), FrameSize), 0)

\* C2 as amended: for every N >= 1, Denoise of N zero samples returns
\* max(N, FrameSize) samples, all of them zero; for N = 0 it returns the
\* empty slice.
C2_SilenceForNonEmpty ==
    (dpc = "ret" /\ AllZero(arg)) =>
        output = IF Size(arg) = 0 THEN Nil
                 ELSE MakeSlice(Longer(Size(arg), FrameSize), 0)

C2_Witness ==
    /\ dpc = "ret"
    /\ AllZero(arg)
    /\ Size(arg) > FrameSize + HopSize
    /\ Size(output) = Size(arg)
    /\ \E k \in DOMAIN windowSum : windowSum[k] > 0

\* C3: Denoise never panics and every step of a call brings it closer to
\* its return (StepsLeft counts the loop iterations and steps still to
\* run): every buffer handed to FFT and IFFT has the length FrameSize, a power of
\* two; the slice src[start:end] of extractFrame has 0 <= start <= end;
\* output and windowSum have n elements, so that the guarded index of the
\* overlap-add is in range; and noiseFrames, the divisor of the average, is
\* at least 1.
StepsLeft ==
    CASE dpc = "pass1" -> (noiseFrames - fi) + totalFrames + 3
      [] dpc = "pass2" -> (totalFrames - fi) + 2
      [] dpc = "step4" -> 1
      [] OTHER         -> 0

Running == dpc \in {"pass1", "pass2", "step4"}

C3_InBounds ==
    /\ dpc # "panic"
    /\ Running => StepsLeft >= 1
    /\ dpc \in {"pass1", "pass2", "step4"} =>
          /\ noiseFrames >= 1
          /\ noiseFrames <= totalFrames
          /\ Size(window) = FrameSize
          /\ Size(noiseMag) = FrameSize
          /\ n = Size(samples)
    /\ ((dpc = "pass1" /\ fi < noiseFrames) \/ (dpc = "pass2" /\ fi < totalFrames)) =>
          /\ 0 <= fi * HopSize
          /\ fi * HopSize <= Size(samples)
          /\ Size(WindowedFrame(samples, fi * HopSize, window)) = FrameSize
          /\ IsPowerOfTwo(FrameSize)
    /\ dpc \in {"pass2", "step4"} =>
          /\ Size(output) = n
          /\ Size(windowSum) = n

C3_Total == []C3_InBounds /\ [][Running => StepsLeft' < StepsLeft]_vars

C3_Witness ==
    /\ dpc = "ret"
    /\ totalFrames > noiseFrames
    /\ noiseFrames = NoiseFrames
    /\ (Size(arg) - FrameSize) % HopSize # 0
    /\ ~AllZero(output)

\* C4: two calls of Denoise on the same samples with different sample
\* rates return the same slice.
C4_RateIndependent ==
    (dpc = "ret" /\ earlier # <<>>) => output = earlier[1]

C4_Witness ==
    /\ dpc = "ret"
    /\ earlier # <<>>
    /\ totalFrames > NoiseFrames
    /\ ~AllZero(output)
    /\ sampleRate = 48000

RECURSIVE ChunkOffsets(_, _)
\* The offsets of the chunk headers of a file: the first at 12, each next
\* one after the declared size of the one before and a padding byte when
\* that size is odd.
ChunkOffsets(bytes, at) ==
    IF at + 8 > Size(bytes) THEN <<>>
    ELSE LET declared == Uint32(bytes, at + 4) IN
         <<at>> \o ChunkOffsets(bytes, at + 8 + declared + (declared % 2))

ChunksOf(bytes, id) ==
    LET offs == ChunkOffsets(bytes, 12) IN
    SelectSeq(offs, LAMBDA at : String4(bytes, at) = id)

BadRIFF(bytes) ==
    \/ Size(bytes) < 12
    \/ String4(bytes, 0) # RIFF
    \/ String4(bytes, 8) # WAVE

BadFmt(bytes, at) ==
    \/ Uint32(bytes, at + 4) < 16
    \/ at + 8 + 16 > Size(bytes)
    \/ Uint16(bytes, at + 8) # 1
    \/ Uint16(bytes, at + 8 + 14) # 16

HasDefect(bytes) ==
    \/ BadRIFF(bytes)
    \/ ChunksOf(bytes, FmtID) = <<>>
    \/ ChunksOf(bytes, DataID) = <<>>
    \/ \E i \in DOMAIN ChunksOf(bytes, FmtID) :
          BadFmt(bytes, ChunksOf(bytes, FmtID)[i])

Last(seq) == seq[Len(seq)]

\* the 16-bit samples of the last data chunk, read up to the end of the file
DataSamples(bytes) ==
    LET at     == Last(ChunksOf(bytes, DataID))
        avail  == IF at + 8 + Uint32(bytes, at + 4) > Size(bytes)
                    THEN Size(bytes) - (at + 8) ELSE Uint32(bytes, at + 4)
    IN  [i \in 0..(avail \div 2 - 1) |->
            Int16(bytes[at + 8 + 2 * i] + 256 * bytes[at + 8 + 2 * i + 1])]

\* C10: ReadWAV returns an error, no samples and no sample rate for every
\* file with a defect (short or wrong RIFF/WAVE header, no fmt chunk, no
\* data chunk, a fmt chunk anywhere in the chunk sequence with a declared
\* size below 16, with fewer than 16 bytes in the file, with an audio
\* format other than 1 or with bits per sample other than 16).  For every
\* other file it returns the sample rate of the last fmt chunk and the
\* samples of the last data chunk, read up to the end of the file when the
\* declared size runs past it, where chunks are found by skipping each
\* chunk's declared size and a padding byte after an odd size.
C10_ReadWAVErrors ==
    wpc = "ret" =>
        IF HasDefect(data)
          THEN wret.err # "nil" /\ wret.samples = Nil /\ wret.sampleRate = 0
          ELSE LET fmt == Last(ChunksOf(data, FmtID))
                   smp == DataSamples(data)
               IN  /\ wret.err = "nil"
                   /\ wret.sampleRate = Uint32(data, fmt + 8 + 4)
                   /\ IF Uint16(data, fmt + 8 + 2) = 2
                        THEN /\ Size(wret.samples) = Size(smp) \div 2
                             /\ \A i \in DOMAIN wret.samples :
                                   2 * wret.samples[i] =
                                      (smp[2 * i] + smp[2 * i + 1])
                                         * (WavUnit \div 32768)
                        ELSE /\ Size(wret.samples) = Size(smp)
                             /\ \A i \in DOMAIN wret.samples :
                                   wret.samples[i] =
                                      smp[i] * (WavUnit \div 32768)

C10_Witness ==
    /\ wpc = "ret"
    /\ wret.err = "wav: unsupported bits per sample"
    /\ pcmData # <<>>
    /\ Len(ChunkOffsets(data, 12)) = MaxChunks
    /\ String4(data, 12) = ListID
    /\ Uint32(data, 16) % 2 = 1

\* ------------------------------------------------------------------------
\* Properties of the FFT kernel
\* ------------------------------------------------------------------------

\* exp(sign * j*2*pi*p/N) on the grid
UnitRoot(N, p) == Cx(Cos2Pi(p, N), Sin2Pi(p, N))

RECURSIVE DFTSum(_, _, _, _)
\* sum over i < upto of x[i] * exp(sign * j*2*pi*k*i/N), N = len(x)
DFTSum(x, k, sign, upto) ==
    IF upto = 0 THEN Cx(0, 0)
    ELSE CAdd(DFTSum(x, k, sign, upto - 1),
              CMul(x[upto - 1], UnitRoot(Size(x), sign * k * (upto - 1))))

\* C5: for a buffer whose length N is a positive power of two, FFT returns
\* the discrete Fourier transform X[k] = sum_n x[n] exp(-j 2 pi k n / N) and
\* IFFT returns x[n] = (1/N) sum_k X[k] exp(+j 2 pi k n / N).
C5_FFTIsDFT ==
    /\ kpc = "fft_ret" =>
          /\ DOMAIN kout = DOMAIN kx
          /\ \A k \in DOMAIN kx : kout[k] = DFTSum(kx, k, -1, Size(kx))
    /\ kpc = "ifft_ret" =>
          /\ DOMAIN kout = DOMAIN kx
          /\ \A i \in DOMAIN kx :
                kout[i] = CDivReal(DFTSum(kx, i, 1, Size(kx)), Size(kx))

C5_Witness ==
    /\ kpc = "fft_ret"
    /\ Size(kx) = 4
    /\ kout[1].im # 0
    /\ kout[1] # kout[3]

\* C6: IFFT(FFT(x)) has the length of x and recovers x element by element,
\* for every x whose length is 2^k with k >= 1.
C6_RoundTrip ==
    (kpc = "roundtrip_ret" /\ Size(kx) >= 2) =>
        /\ Size(krec) = Size(kx)
        /\ \A i \in DOMAIN kx : krec[i] = kx[i]

C6_Witness ==
    /\ kpc = "roundtrip_ret"
    /\ Size(kx) = 4
    /\ \E i, k \in DOMAIN kx : kx[i] # kx[k]
    /\ kout # kx

CodecVals == {-2 * Scale, -Scale, -1, 0, 1, Scale \div 3, Scale,
              Scale + Scale \div 2}

CodecInputs == UNION {[0..(len - 1) -> CodecVals] : len \in 0..MaxWavLen}

CodecRates == {0, 8000, 44100, 16777216 + 5}

\* data := WriteWAV(samples, sampleRate)
WriteWAVCall ==
    /\ cpc = "idle" /\ wpc = "idle"
    /\ \E s \in CodecInputs, r \in CodecRates :
          /\ wsrc' = s
          /\ wrate' = r
          /\ data' = WriteWAV(s, r)
    /\ cpc' = "written"
    /\ UNCHANGED <<pos, header, pcmData, wret, wpc, httpVars, concVars, hookVars,
                   kernelVars, denoiseVars, normVars>>

\* recovered, sr, err := ReadWAV(data): lines 22-38 of ReadWAV.
ReadBack ==
    /\ cpc = "written"
    /\ cpc' = "readback"
    /\ IF CheckRIFF(data) # "nil"
         THEN /\ wret' = WavError(CheckRIFF(data))
              /\ wpc' = "ret"
              /\ UNCHANGED pos
         ELSE /\ pos' = 12
              /\ wpc' = "walk"
              /\ UNCHANGED wret
    /\ UNCHANGED <<data, header, pcmData, wsrc, wrate, httpVars, concVars, hookVars,
                   kernelVars, denoiseVars, normVars>>

CodecNext == WriteWAVCall \/ ReadBack \/ WalkChunk \/ ReadWAVReturn

SpecCodec == Init /\ [][CodecNext]_vars

\* the sample as WriteWAV clamps it
Clamped(v) == IF v > Scale THEN Scale ELSE IF v < -Scale THEN -Scale ELSE v

\* |a / WavUnit - b / Scale| <= 0.001
WithinMilli(a, b) == Abs(a * Scale - b * WavUnit) <= (Scale * WavUnit) \div 1000

\* C11: ReadWAV(WriteWAV(s, r)) returns no error, the sample rate r,
\* len(s) samples, and every recovered sample within 0.001 of the original
\* clamped to [-1, +1] (of the original itself when it lies in [-1, +1]);
\* every int16 in the file is round(c * 32767) for a clamped sample
\* c >= 0 and round(c * 32768) for c < 0, hence between -32768 and 32767.
C11_RoundTrip ==
    (cpc = "readback" /\ wpc = "ret") =>
        /\ wret.err = "nil"
        /\ wret.sampleRate = wrate
        /\ Size(wret.samples) = Size(wsrc)
        /\ Size(data) = 44 + 2 * Size(wsrc)
        /\ \A i \in DOMAIN wsrc :
              /\ WithinMilli(wret.samples[i], Clamped(wsrc[i]))
              /\ LET i16 == Int16(Uint16(data, 44 + 2 * i)) IN
                 /\ i16 >= -32768 /\ i16 <= 32767
                 /\ wret.samples[i] = 2 * i16
                 /\ Clamped(wsrc[i]) >= 0 =>
                       /\ i16 >= 0
                       /\ Abs(2 * i16 * Scale - 2 * Clamped(wsrc[i]) * 32767)
                             <= Scale
                 /\ Clamped(wsrc[i]) < 0 =>
                       /\ i16 <= 0
                       /\ Abs(2 * i16 * Scale - 2 * Clamped(wsrc[i]) * 32768)
                             <= Scale

C11_Witness ==
    /\ cpc = "readback" /\ wpc = "ret"
    /\ wrate = 44100
    /\ wret.sampleRate = 44100
    /\ Size(wsrc) = MaxWavLen
    /\ wsrc[0] = Scale \div 3
    /\ wsrc[1] = -1
    /\ wret.samples[0] = 2 * RDiv((Scale \div 3) * 32767, Scale)
    /\ wret.samples[1] = 2 * (-3)

\* ------------------------------------------------------------------------
\* HTTP surface: corsMiddleware and handleDenoise (server.go)
\* ------------------------------------------------------------------------

\* maxUploadSize = 50 << 20 in the source.  The model counts the bytes of
\* the files it builds, which have some tens of bytes, and holds the limit
\* at 50 of them.
maxUploadSize == 50

\* w.Header().Set(name, value)
SetHeader(w, name, value) ==
    [w EXCEPT !.headers = {h \in @ : h[1] # name} \cup {<<name, value>>}]

\* w.WriteHeader(code), when no status has been written yet
WriteHeader(w, code) ==
    IF w.status = 0 THEN [w EXCEPT !.status = code] ELSE w

\* http.Error(w, msg, code): sets Content-Type and X-Content-Type-Options,
\* writes the status and the message, and keeps the headers already set
HttpError(w, msg, code) ==
    [WriteHeader(
        SetHeader(SetHeader(w, "Content-Type", "text/plain; charset=utf-8"),
                  "X-Content-Type-Options", "nosniff"),
        code)
     EXCEPT !.text = msg]

\* w.Write(bytes): the status is 200 unless one was written before
Write(w, bytes) == [WriteHeader(w, 200) EXCEPT !.body = bytes]

\* Lines 15-17
SetCORS(w) ==
    SetHeader(SetHeader(SetHeader(w,
        "Access-Control-Allow-Origin", "*"),
        "Access-Control-Allow-Methods", "POST, OPTIONS"),
        "Access-Control-Allow-Headers", "Content-Type")

IsPostOrGet(method) == method \in {"POST", "GET"}
\* r.Method == http.MethodPost
IsPost(method) == method = "POST"

\* r.ParseMultipartForm(maxMemory) of net/http: an error for a body that
\* is no multipart form; otherwise the form, with each file part held in
\* memory when it has at most maxMemory bytes and in a temporary file on
\* disk when it has more.  No size is refused.
ParseMultipartForm(r, maxMemory) ==
    [err  |-> ~r.multipartOK,
     file |-> IF r.multipartOK /\ r.hasFile
                THEN <<[onDisk  |-> Size(r.file) > maxMemory,
                        content |-> r.file]>>
                ELSE <<>>]

\* one float64 of ReadWAV (units of 1 / WavUnit) on the grid of Denoise
ToGrid(v) == RDiv(v * Scale, WavUnit)

\* The uploads: what WriteWAV writes for a few recordings (as the browser
\* and TestFullPipeline produce them), and files put together from a RIFF
\* header and chunks, well-formed or not.
HttpRecordings ==
    { Nil,
      Recording(MakeSlice(PeriodLen, Scale \div 2), 0, 3),
      Recording(MakeSlice(PeriodLen, -Scale), 0, 4),
      Recording([i \in 0..(PeriodLen - 1) |-> IF i = 1 THEN Scale \div 2 ELSE 0],
                0, 7) }

HttpFragments ==
    { Chunk(FmtID, 16, FmtBody(1, 2, 11025, 16)),
      Chunk(FmtID, 16, FmtBody(3, 1, 8000, 16)),
      Chunk(DataID, 8, <<0, 64, 0, 128, 0, 64, 0, 64>>),
      Chunk(ListID, 1, <<9, 0>>) }

HttpFiles ==
    {WriteWAV(s, 8000) : s \in HttpRecordings}
    \cup { ToSlice(h \o Concat(parts)) :
             h \in {RIFF \o Bytes32(36) \o WAVE, RIFF \o Bytes32(36) \o RIFF},
             parts \in UNION {[1..k -> HttpFragments] : k \in 0..2} }

HttpMethods == {"OPTIONS", "GET", "POST", "PUT"}

HttpRequests ==
    { [method |-> m, multipartOK |-> FALSE, hasFile |-> FALSE,
       readOK |-> FALSE, file |-> Nil] : m \in HttpMethods }
    \cup { [method |-> m, multipartOK |-> TRUE, hasFile |-> FALSE,
            readOK |-> FALSE, file |-> Nil] : m \in HttpMethods }
    \cup { [method |-> m, multipartOK |-> TRUE, hasFile |-> TRUE,
            readOK |-> ok, file |-> f] :
              m \in HttpMethods, ok \in BOOLEAN, f \in HttpFiles }

\* Lines 14-25: corsMiddleware serves a request.
ServeHTTP ==
    /\ hpc = "idle" /\ wpc = "idle" /\ dpc = "idle" /\ cpc = "idle"
    /\ \E r \in HttpRequests :
          /\ req' = r
          /\ IF r.method = "OPTIONS"
               THEN /\ resp' = WriteHeader(SetCORS(resp), 204)
                    /\ hpc' = "done"
                    /\ UNCHANGED invoked
               ELSE /\ resp' = SetCORS(resp)
                    /\ hpc' = "handler"
                    /\ invoked' = TRUE
    /\ UNCHANGED <<called, codecVars, concVars, hookVars, kernelVars, denoiseVars, normVars,
                   wavVars>>

\* Lines 32-61: handleDenoise up to its call of ReadWAV, whose lines
\* 22-38 run here.
HandleUpload ==
    /\ hpc = "handler"
    /\ LET form == ParseMultipartForm(req, maxUploadSize) IN
       IF ~IsPost(req.method)
         THEN /\ resp' = HttpError(resp, "method not allowed", 405)
              /\ hpc' = "done"
              /\ UNCHANGED wavVars
       ELSE IF form.err
         THEN /\ resp' = HttpError(resp, "failed to parse upload", 400)
              /\ hpc' = "done"
              /\ UNCHANGED wavVars
       ELSE IF form.file = <<>>
         THEN /\ resp' = HttpError(resp, "no file uploaded", 400)
              /\ hpc' = "done"
              /\ UNCHANGED wavVars
       ELSE IF ~req.readOK
         THEN /\ resp' = HttpError(resp, "failed to read file", 500)
              /\ hpc' = "done"
              /\ UNCHANGED wavVars
       ELSE /\ data' = form.file[1].content
            /\ hpc' = "readwav"
            /\ IF CheckRIFF(form.file[1].content) # "nil"
                 THEN /\ wret' = WavError(CheckRIFF(form.file[1].content))
                      /\ wpc' = "ret"
                      /\ UNCHANGED pos
                 ELSE /\ pos' = 12
                      /\ wpc' = "walk"
                      /\ UNCHANGED wret
            /\ UNCHANGED <<resp, header, pcmData>>
    /\ UNCHANGED <<req, invoked, called, codecVars, concVars, hookVars, kernelVars, denoiseVars,
                   normVars>>

\* Lines 62-72: after ReadWAV; Denoise is entered on the decoded samples.
HandleDecoded ==
    /\ hpc = "readwav" /\ wpc = "ret"
    /\ IF wret.err # "nil"
         THEN /\ resp' = HttpError(resp, "invalid WAV file", 400)
              /\ hpc' = "done"
              /\ UNCHANGED <<called, denoiseVars>>
         ELSE /\ Enter([i \in DOMAIN wret.samples |-> ToGrid(wret.samples[i])],
                       wret.sampleRate)
              /\ called' = called + 1
              /\ hpc' = "denoise"
              /\ UNCHANGED <<resp, earlier>>
    /\ UNCHANGED <<req, invoked, codecVars, concVars, hookVars, kernelVars, normVars, wavVars>>

\* Lines 75-82: after Denoise.
HandleCleaned ==
    /\ hpc = "denoise" /\ dpc = "ret"
    /\ resp' = Write(SetHeader(SetHeader(resp,
                        "Content-Type", "audio/wav"),
                        "Content-Disposition",
                        "attachment; filename=\"cleaned.wav\""),
                     WriteWAV(output, sampleRate))
    /\ hpc' = "done"
    /\ UNCHANGED <<req, invoked, called, codecVars, concVars, hookVars, kernelVars, denoiseVars,
                   normVars, wavVars>>

HttpNext ==
    \/ ServeHTTP
    \/ HandleUpload
    \/ WalkChunk
    \/ ReadWAVReturn
    \/ HandleDecoded
    \/ DenoiseStep
    \/ HandleCleaned

SpecHTTP == Init /\ [][HttpNext]_vars

\* ------------------------------------------------------------------------
\* Properties of the HTTP surface
\* ------------------------------------------------------------------------

CORSHeaders ==
    { <<"Access-Control-Allow-Origin", "*">>,
      <<"Access-Control-Allow-Methods", "POST, OPTIONS">>,
      <<"Access-Control-Allow-Headers", "Content-Type">> }

\* how many mono samples a well-formed upload holds
UploadSamples(bytes) ==
    IF Uint16(bytes, Last(ChunksOf(bytes, FmtID)) + 8 + 2) = 2
      THEN Size(DataSamples(bytes)) \div 2
      ELSE Size(DataSamples(bytes))

\* the body is a 16-bit mono PCM WAV file of len samples at the given rate
IsMonoWav(bytes, rate, len) ==
    /\ Size(bytes) = 44 + 2 * len
    /\ ~HasDefect(bytes)
    /\ ChunkOffsets(bytes, 12) = <<12, 36>>
    /\ String4(bytes, 12) = FmtID
    /\ String4(bytes, 36) = DataID
    /\ Uint16(bytes, 20) = 1
    /\ Uint16(bytes, 22) = 1
    /\ Uint32(bytes, 24) = rate
    /\ Uint16(bytes, 34) = 16
    /\ Uint32(bytes, 40) = 2 * len

\* C12: every request ends in exactly one outcome.  OPTIONS: 204, the
\* handler is not invoked.  Any other method but POST: 405.  POST with a
\* body that is no multipart form or has no file field: 400.  POST whose
\* file cannot be read: 500.  POST whose file ReadWAV rejects: 400.  Any
\* other POST: Denoise is called exactly once and the response is 200 with
\* Content-Type audio/wav, Content-Disposition attachment;
\* filename="cleaned.wav" and a 16-bit mono WAV body at the sample rate of
\* the upload.  Denoise is called in no other outcome, at most once while
\* a request is served, and every response carries the three CORS headers.
C12_Outcomes ==
    /\ called <= 1
    /\ hpc \notin {"idle", "done"} => invoked /\ req.method # "OPTIONS"
    /\ hpc = "done" =>
          /\ CORSHeaders \subseteq resp.headers
          /\ IF req.method = "OPTIONS"
               THEN resp.status = 204 /\ ~invoked /\ called = 0
             ELSE IF req.method # "POST"
               THEN resp.status = 405 /\ called = 0
             ELSE IF ~req.multipartOK \/ ~req.hasFile
               THEN resp.status = 400 /\ called = 0
             ELSE IF ~req.readOK
               THEN resp.status = 500 /\ called = 0
             ELSE IF HasDefect(req.file)
               THEN resp.status = 400 /\ called = 0
             ELSE /\ resp.status = 200
                  /\ called = 1
                  /\ <<"Content-Type", "audio/wav">> \in resp.headers
                  /\ <<"Content-Disposition",
                       "attachment; filename=\"cleaned.wav\"">> \in resp.headers
                  /\ Cardinality({h \in resp.headers : h[1] = "Content-Type"}) = 1
                  /\ IsMonoWav(resp.body,
                               Uint32(req.file,
                                      Last(ChunksOf(req.file, FmtID)) + 8 + 4),
                               IF UploadSamples(req.file) = 0 THEN 0
                               ELSE Longer(UploadSamples(req.file), FrameSize))

C12_Witness ==
    /\ hpc = "done"
    /\ req.method = "POST"
    /\ resp.status = 200
    /\ called = 1
    /\ Size(req.file) > 44
    /\ Uint16(req.file, 22) = 2
    /\ Size(resp.body) = 44 + 2 * FrameSize
    /\ \E i \in 44..(Size(resp.body) - 1) : resp.body[i] # 0
    /\ CORSHeaders \subseteq resp.headers

\* C13 as stated: a POST whose uploaded file has more bytes than
\* maxUploadSize is answered with 400 and Denoise is never called for it.
C13_UploadLimit ==
    (hpc = "done" /\ req.method = "POST" /\ req.multipartOK /\ req.hasFile
       /\ Size(req.file) > maxUploadSize)
    => (resp.status = 400 /\ called = 0)

\* ------------------------------------------------------------------------
\* Properties of pass 2
\* ------------------------------------------------------------------------

\* the spectrum of the frame the loop of pass 2 is about to process
FrameSpectrum == FFT(WindowedFrame(samples, fi * HopSize, window))

InPass2 == dpc = "pass2" /\ fi < totalFrames

\* max(mag - OverSubtract * noise, SpectralFloor * mag)
CleanMag(mag, noise) ==
    IF mag - Mul(OverSubtract, noise) < Mul(SpectralFloor, mag)
      THEN Mul(SpectralFloor, mag)
      ELSE mag - Mul(OverSubtract, noise)

\* C14: for every frame of pass 2 and every bin k, noiseMag[k] >= 0 and
\* the value that replaces spectrum[k] has the magnitude
\* cleanMag = max(mag - OverSubtract * noiseMag[k], SpectralFloor * mag)
\* and the direction of spectrum[k]; cleanMag is at least
\* SpectralFloor * mag, at most mag and never negative.  Magnitudes are
\* compared up to one step of the grid, the rounding of Rect.
C14_FloorAndCeiling ==
    InPass2 =>
        \A k \in 0..(FrameSize - 1) :
            LET z        == FrameSpectrum[k]
                mag      == CAbs(z)
                cleanMag == CleanMag(mag, noiseMag[k])
                new      == SubtractBin(z, noiseMag[k])
            IN  /\ noiseMag[k] >= 0
                /\ Mul(SpectralFloor, mag) <= cleanMag
                /\ cleanMag <= mag
                /\ cleanMag >= 0
                /\ Abs(CAbs(new) - cleanMag) <= 1
                /\ CAbs(new) <= mag + 1
                /\ CAbs(new) >= Mul(SpectralFloor, mag) - 1
                /\ new.re * z.re + new.im * z.im >= 0
                /\ Abs(new.re * z.im - new.im * z.re) <= Abs(z.re) + Abs(z.im)
                /\ mag = 0 => new = Cx(0, 0)

C14_Witness ==
    /\ InPass2
    /\ \E k \in 0..(FrameSize - 1) :
          LET mag == CAbs(FrameSpectrum[k]) IN
          /\ mag > 0
          /\ noiseMag[k] > 0
          /\ mag - Mul(OverSubtract, noiseMag[k]) < Mul(SpectralFloor, mag)
          /\ CAbs(SubtractBin(FrameSpectrum[k], noiseMag[k])) > 0
    /\ \E k \in 0..(FrameSize - 1) :
          LET mag == CAbs(FrameSpectrum[k]) IN
          /\ noiseMag[k] > 0
          /\ mag - Mul(OverSubtract, noiseMag[k]) > Mul(SpectralFloor, mag)
    /\ \E k \in 0..(FrameSize - 1) : FrameSpectrum[k].im # 0

\* ------------------------------------------------------------------------
\* Properties of the overlap-add
\* ------------------------------------------------------------------------

\* pass 2 has run: windowSum is what step 3 divides by
AfterPass2 == dpc \in {"step4", "ret"} /\ Size(arg) > 0

\* the indices covered by two frames: those of every frame's first half
\* but the first frame's, up to the last frame's start plus HopSize
Interior == {i \in DOMAIN windowSum : HopSize <= i /\ i < totalFrames * HopSize}

\* C15 as stated: at every interior index the accumulated windowSum is the
\* constant 0.5 * FrameSize / HopSize = 1.0.
C15_COLA ==
    AfterPass2 =>
        \A i \in Interior : windowSum[i] = RDiv(Scale * FrameSize, 2 * HopSize)

\* C15 as amended: at every interior index i the accumulated windowSum is
\* window[j]^2 + window[j + HopSize]^2 for j = i mod HopSize, the squared
\* weights of the two frames that cover i: the same at indices HopSize
\* apart and greater than 1e-8.
C15_WindowEnergy ==
    AfterPass2 =>
        \A i \in Interior :
            LET j == i % HopSize IN
            /\ windowSum[i] = Mul(window[j], window[j])
                                + Mul(window[j + HopSize], window[j + HopSize])
            /\ AboveWindowThreshold(windowSum[i])
            /\ (i + HopSize) \in Interior => windowSum[i + HopSize] = windowSum[i]

C15_Witness ==
    /\ dpc = "step4"
    /\ totalFrames >= 4
    /\ Cardinality(Interior) = (totalFrames - 1) * HopSize
    /\ \A i \in Interior : windowSum[i] > 0
    /\ \E i \in Interior : windowSum[i] # RDiv(Scale * FrameSize, 2 * HopSize)
    /\ ~AllZero(output)

\* ------------------------------------------------------------------------
\* Properties of the framing
\* ------------------------------------------------------------------------

\* floor((N - FrameSize) / HopSize) + 1
FramesOf(len) == (len - FrameSize) \div HopSize + 1

\* the indices of a signal of len samples that lie in one of its frames
Covered(len) ==
    {i \in 0..(len - 1) :
        \E f \in 0..(FramesOf(len) - 1) :
            f * HopSize <= i /\ i < f * HopSize + FrameSize}

\* the indices to which some frame gives a window weight above zero
Weighted(len) ==
    {i \in 0..(len - 1) :
        \E f \in 0..(FramesOf(len) - 1) :
            /\ f * HopSize <= i /\ i < f * HopSize + FrameSize
            /\ HannWindow(FrameSize)[i - f * HopSize] > 0}

\* C16: for every effective length N >= FrameSize, totalFrames is
\* floor((N - FrameSize) / HopSize) + 1; every frame fi < totalFrames
\* starts at fi * HopSize and ends at or before N, so the guard of the
\* overlap-add holds for each of its samples; pass 2 processes exactly
\* those frames (windowSum is above zero exactly where one of them gives a
\* weight above zero); and the samples after the last frame are
\* (N - FrameSize) mod HopSize in number, fewer than FrameSize - HopSize.
C16_FrameCoverage ==
    (dpc \in {"pass1", "pass2", "step4", "ret"} /\ Size(arg) > 0) =>
        /\ n >= FrameSize
        /\ n = Longer(Size(arg), FrameSize)
        /\ totalFrames = FramesOf(n)
        /\ \A f \in 0..(totalFrames - 1) :
              /\ f * HopSize + FrameSize <= n
              /\ \A j \in 0..(FrameSize - 1) : f * HopSize + j < n
        /\ n - Cardinality(Covered(n)) = (n - FrameSize) % HopSize
        /\ (0..(n - 1)) \ Covered(n) =
              ((totalFrames - 1) * HopSize + FrameSize)..(n - 1)
        /\ (n - FrameSize) % HopSize < FrameSize - HopSize
        /\ dpc = "pass1" => fi <= noiseFrames
        /\ dpc = "pass2" => fi <= totalFrames
        /\ dpc \in {"step4", "ret"} =>
              /\ fi = totalFrames
              /\ {i \in DOMAIN windowSum : windowSum[i] > 0} = Weighted(n)

C16_Witness ==
    /\ dpc = "ret"
    /\ Size(arg) > FrameSize
    /\ totalFrames >= 3
    /\ (n - FrameSize) % HopSize = HopSize - 1
    /\ (0..(n - 1)) \ Covered(n) = {n - 1}
    /\ arg[n - 1] # 0
    /\ windowSum[n - 1] = 0
    /\ windowSum[n - 1 - HopSize] > 0

\* the indices after the last frame of a signal of len samples
TailIndices(len) == ((FramesOf(len) - 1) * HopSize + FrameSize)..(len - 1)

\* C18: for every N >= FrameSize, output and windowSum stay zero at every
\* index after the last frame while Denoise runs, and every sample
\* Denoise returns at such an index is zero, whatever the input holds
\* there.
C18_SilentTail ==
    (Size(arg) >= FrameSize /\ dpc \in {"pass2", "step4", "ret"}) =>
        /\ Size(output) = Size(arg)
        /\ \A i \in TailIndices(Size(arg)) : output[i] = 0 /\ windowSum[i] = 0

C18_Witness ==
    /\ dpc = "ret"
    /\ Size(arg) >= FrameSize + HopSize
    /\ TailIndices(Size(arg)) = {Size(arg) - 1}
    /\ arg[Size(arg) - 1] = -Scale
    /\ output[Size(arg) - 1] = 0
    /\ \E i \in DOMAIN output : Abs(output[i]) = TargetLevel

\* ------------------------------------------------------------------------
\* Concurrent calls of Denoise (one goroutine per request, server.go:72)
\* ------------------------------------------------------------------------

\* Lines 39-70 for a call handed the slice `in`, held by its caller under
\* the name `slice`: the locals at the first loop.  The local samples is
\* the caller's slice itself unless the call pads (lines 45-50).
EnterOf(slice, in) ==
    IF Size(in) = 0
      THEN [IdleCall EXCEPT !.slice = slice, !.dpc = "ret"]
      ELSE [slice       |-> slice,
            dpc         |-> "pass1",
            padded      |-> IF Size(in) < FrameSize THEN <<Pad(in)>> ELSE <<>>,
            n           |-> Prologue(in, 0).n,
            totalFrames |-> Prologue(in, 0).totalFrames,
            noiseFrames |-> Prologue(in, 0).noiseFrames,
            window      |-> Prologue(in, 0).window,
            noiseMag    |-> Prologue(in, 0).noiseMag,
            output      |-> Nil,
            windowSum   |-> Nil,
            fi          |-> 0]

\* One step of a call with the locals c whose local samples holds src:
\* an iteration of the loop of lines 72-83, lines 86-94, an iteration of
\* the loop of lines 96-136, lines 141-145, or lines 151-153.  The step
\* gives the new locals and what it leaves in the slice.
StepOf(c, src) ==
    LET start == c.fi * HopSize IN
    IF c.dpc = "pass1" /\ c.fi < c.noiseFrames THEN
        IF FramePanics(src, start, c.window)
          THEN [c |-> [c EXCEPT !.dpc = "panic"], src |-> src]
          ELSE [c |-> [c EXCEPT
                         !.noiseMag = AccumulateNoise(@,
                                         FFT(WindowedFrame(src, start, c.window))),
                         !.fi = @ + 1],
                src |-> AfterFrame(src, start, c.window)]
    ELSE IF c.dpc = "pass1" THEN
        [c |-> [c EXCEPT !.noiseMag = AverageNoise(@, c.noiseFrames),
                         !.output = MakeSlice(c.n, 0),
                         !.windowSum = MakeSlice(c.n, 0),
                         !.fi = 0,
                         !.dpc = "pass2"],
         src |-> src]
    ELSE IF c.dpc = "pass2" /\ c.fi < c.totalFrames THEN
        IF FramePanics(src, start, c.window)
          THEN [c |-> [c EXCEPT !.dpc = "panic"], src |-> src]
          ELSE LET spectrum == FFT(WindowedFrame(src, start, c.window))
                   cleaned  == IFFT(SpectralSubtract(spectrum, c.noiseMag))
                   acc      == overlapAddLoop(
                                  [output |-> c.output, windowSum |-> c.windowSum],
                                  cleaned, c.window, start, 0, c.n)
               IN  [c |-> [c EXCEPT !.output = acc.output,
                                    !.windowSum = acc.windowSum,
                                    !.fi = @ + 1],
                    src |-> AfterFrame(src, start, c.window)]
    ELSE IF c.dpc = "pass2" THEN
        [c |-> [c EXCEPT !.output = WindowNormalize(@, c.windowSum),
                         !.dpc = "step4"],
         src |-> src]
    ELSE
        [c |-> [c EXCEPT !.output = normalize(@, TargetLevel, 0).samples,
                         !.dpc = "ret"],
         src |-> src]

ConcInputs ==
    { Recording([i \in 0..(PeriodLen - 1) |-> IF i = 0 THEN -Scale ELSE Scale \div 2],
                0, 3),
      Recording([i \in 0..(PeriodLen - 1) |-> IF i = 1 THEN Scale \div 2 ELSE 0],
                0, 6),
      Recording([i \in 0..(PeriodLen - 1) |-> IF i = 2 THEN 0 ELSE -Scale],
                0, 7) }

Slices == 1..2

\* The requests' sample slices come into being.
Allocate ==
    /\ given = <<>>
    /\ hpc = "idle" /\ dpc = "idle" /\ wpc = "idle" /\ cpc = "idle"
    /\ \E heap \in [Slices -> ConcInputs] :
          /\ given' = heap
          /\ shared' = heap
    /\ UNCHANGED <<calls, codecVars, httpVars, hookVars, kernelVars,
                   denoiseVars, normVars, wavVars>>

\* go: cleaned := Denoise(samples, sampleRate), on one of the slices
Go(g) ==
    /\ given # <<>>
    /\ calls[g].dpc = "idle"
    /\ \E a \in Slices :
          calls' = [calls EXCEPT ![g] = EnterOf(a, shared[a])]
    /\ UNCHANGED <<given, shared, codecVars, httpVars, hookVars, kernelVars,
                   denoiseVars, normVars, wavVars>>

\* the call g runs one step
Step(g) ==
    /\ calls[g].dpc \in {"pass1", "pass2", "step4"}
    /\ LET c == calls[g] IN
       IF c.padded # <<>>
         THEN /\ calls' = [calls EXCEPT ![g] =
                             [StepOf(c, c.padded[1]).c EXCEPT
                                 !.padded = <<StepOf(c, c.padded[1]).src>>]]
              /\ UNCHANGED shared
         ELSE /\ calls' = [calls EXCEPT ![g] = StepOf(c, shared[c.slice]).c]
              /\ shared' = [shared EXCEPT ![c.slice] =
                               StepOf(c, shared[c.slice]).src]
    /\ UNCHANGED <<given, codecVars, httpVars, hookVars, kernelVars,
                   denoiseVars, normVars, wavVars>>

ConcNext ==
    \/ Allocate
    \/ \E g \in 1..MaxCalls : Go(g)
    \/ \E g \in 1..MaxCalls : Step(g)

SpecConc == Init /\ [][ConcNext]_vars

RECURSIVE RunAlone(_, _)
\* a call run from the locals c to its return with nothing else running
RunAlone(c, src) ==
    IF c.dpc \notin {"pass1", "pass2", "step4"} THEN c
    ELSE RunAlone(StepOf(c, src).c, StepOf(c, src).src)

\* what Denoise returns for the slice `in` when it runs alone
Alone(in) == RunAlone(EnterOf(0, in), Pad(in)).output

\* C17: under every interleaving of the calls, no call changes a slice it
\* was handed, and every call that has returned has returned what Denoise
\* returns for its slice when it runs alone.
C17_Independent ==
    /\ shared = given
    /\ \A g \in 1..MaxCalls :
          /\ calls[g].dpc # "panic"
          /\ calls[g].dpc = "ret" =>
                calls[g].output = Alone(given[calls[g].slice])

C17_Witness ==
    /\ \A g \in 1..MaxCalls : calls[g].dpc = "ret"
    /\ \A g \in 1..MaxCalls : calls[g].slice = 1
    /\ Size(given[1]) > FrameSize
    /\ ~AllZero(calls[1].output)
    /\ calls[1].output = calls[2].output

-----------------------------------------------------------------------------
(***************************************************************************)
(* The browser: the useRecorder hook behind the Recorder component.        *)
(*                                                                         *)
(* A recording is named by the number of the MediaRecorder that made it:   *)
(* audioUrl = r is the object URL of the blob recorder r produced, and     *)
(* cleanedAudioUrl = r is the object URL of the reply to the upload of     *)
(* that blob.  0 stands for null.  The buttons are offered as              *)
(* AudioPlayback and MicButton render them: the microphone button always,  *)
(* delete and send only while audioUrl is set, cleanedAudioUrl is not and  *)
(* processing is false.                                                    *)
(***************************************************************************)

\* clearPreviousRecording (lines 21-26) is part of both callers below.

\* toggleRecording with active false (lines 58-64): startRecording clears the
\* previous recording and waits for getUserMedia (lines 29-31).
ToggleStart ==
    /\ ~active
    /\ made + micPending < MaxRecordings
    /\ audioUrl' = 0
    /\ cleanedAudioUrl' = 0
    /\ webmBlobRef' = 0
    /\ micPending' = micPending + 1
    /\ UNCHANGED nonHookVars
    /\ UNCHANGED <<active, processing, mediaRecorderRef, recorders,
                   stopEvents, sends, made>>

\* getUserMedia resolves: the rest of startRecording (lines 32-50)
MicGranted ==
    /\ micPending > 0
    /\ micPending' = micPending - 1
    /\ made' = made + 1
    /\ mediaRecorderRef' = made + 1
    /\ recorders' = recorders \cup {made + 1}
    /\ active' = TRUE
    /\ UNCHANGED nonHookVars
    /\ UNCHANGED <<audioUrl, cleanedAudioUrl, processing, webmBlobRef,
                   stopEvents, sends>>

\* getUserMedia rejects: toggleRecording catches and logs (lines 62-64)
MicDenied ==
    /\ micPending > 0
    /\ micPending' = micPending - 1
    /\ UNCHANGED nonHookVars
    /\ UNCHANGED <<active, audioUrl, cleanedAudioUrl, processing,
                   mediaRecorderRef, webmBlobRef, recorders, stopEvents,
                   sends, made>>

\* toggleRecording with active true (lines 65-67): stopRecording (53-56).
\* stop() on a recorder that is not recording throws before setActive.
ToggleStop ==
    /\ active
    /\ IF mediaRecorderRef = 0
          THEN /\ active' = FALSE
               /\ UNCHANGED <<recorders, stopEvents>>
          ELSE IF mediaRecorderRef \in recorders
                  THEN /\ recorders' = recorders \ {mediaRecorderRef}
                       /\ stopEvents' = stopEvents \cup {mediaRecorderRef}
                       /\ active' = FALSE
                  ELSE UNCHANGED <<active, recorders, stopEvents>>
    /\ UNCHANGED nonHookVars
    /\ UNCHANGED <<audioUrl, cleanedAudioUrl, processing, mediaRecorderRef,
                   webmBlobRef, micPending, sends, made>>

\* The stop event of recorder r: mediaRecorder.onstop (lines 42-47)
OnStop(r) ==
    /\ r \in stopEvents
    /\ stopEvents' = stopEvents \ {r}
    /\ webmBlobRef' = r
    /\ audioUrl' = r
    /\ UNCHANGED nonHookVars
    /\ UNCHANGED <<active, cleanedAudioUrl, processing, mediaRecorderRef,
                   micPending, recorders, sends, made>>

\* The delete and send buttons as AudioPlayback renders them
\* (part_001 lines 39-108: no player without audioUrl, buttons only without
\* cleanedAudioUrl, disabled while processing)
ButtonsEnabled == audioUrl # 0 /\ cleanedAudioUrl = 0 /\ ~processing

\* deleteRecording (lines 71-73)
DeleteRecording ==
    /\ ButtonsEnabled
    /\ audioUrl' = 0
    /\ cleanedAudioUrl' = 0
    /\ webmBlobRef' = 0
    /\ UNCHANGED nonHookVars
    /\ UNCHANGED <<active, processing, mediaRecorderRef, micPending,
                   recorders, stopEvents, sends, made>>

\* sendRecording up to its first await (lines 76-82)
SendRecording ==
    /\ ButtonsEnabled
    /\ IF webmBlobRef = 0
          THEN UNCHANGED <<processing, sends>>
          ELSE /\ processing' = TRUE
               /\ sends' = sends \cup {[blob |-> webmBlobRef,
                                        at |-> "webmToWav"]}
    /\ UNCHANGED nonHookVars
    /\ UNCHANGED <<active, audioUrl, cleanedAudioUrl, mediaRecorderRef,
                   webmBlobRef, micPending, recorders, stopEvents, made>>

\* webmToWav resolves and the upload is posted (lines 82-91)
Converted(s) ==
    /\ s \in sends
    /\ s.at = "webmToWav"
    /\ sends' = (sends \ {s}) \cup {[s EXCEPT !.at = "fetch"]}
    /\ UNCHANGED nonHookVars
    /\ UNCHANGED <<active, audioUrl, cleanedAudioUrl, processing,
                   mediaRecorderRef, webmBlobRef, micPending, recorders,
                   stopEvents, made>>

\* The reply arrives with response.ok (lines 93-103, 106-108)
ResponseOK(s) ==
    /\ s \in sends
    /\ s.at = "fetch"
    /\ sends' = sends \ {s}
    /\ cleanedAudioUrl' = s.blob
    /\ processing' = FALSE
    /\ UNCHANGED nonHookVars
    /\ UNCHANGED <<active, audioUrl, mediaRecorderRef, webmBlobRef,
                   micPending, recorders, stopEvents, made>>

\* webmToWav or fetch rejects, or the reply is not ok (lines 93-96, 104-108)
SendFailed(s) ==
    /\ s \in sends
    /\ sends' = sends \ {s}
    /\ processing' = FALSE
    /\ UNCHANGED nonHookVars
    /\ UNCHANGED <<active, audioUrl, cleanedAudioUrl, mediaRecorderRef,
                   webmBlobRef, micPending, recorders, stopEvents, made>>

HookNext ==
    \/ ToggleStart
    \/ MicGranted
    \/ MicDenied
    \/ ToggleStop
    \/ DeleteRecording
    \/ SendRecording
    \/ \E r \in 1..MaxRecordings : OnStop(r)
    \/ \E s \in sends : Converted(s)
    \/ \E s \in sends : ResponseOK(s)
    \/ \E s \in sends : SendFailed(s)

SpecHook == Init /\ [][HookNext]_vars

\* C19: whenever cleanedAudioUrl is set it is the denoised result of the
\* recording audioUrl holds (no reply for a deleted or replaced recording is
\* shown), and processing is false once no send is in flight.
C19_CleanedIsCurrent ==
    /\ cleanedAudioUrl # 0 => cleanedAudioUrl = audioUrl
    /\ sends = {} => ~processing

=============================================================================
